---------------------------- MODULE Spec2Model ----------------------------
(***************************************************************************)
(* Model of the transportc package: the reference signaling channel        *)
(* (DebugSignal), the Listener's state machine, accept loop and per-offer   *)
(* negotiation tasks, and the Dialer's DialContext and session creation.   *)
(*                                                                         *)
(* Goroutines are processes; every step between two points where another  *)
(* goroutine can observe or change shared state is one action.  A section *)
(* of code that runs under a sync.Mutex and cannot block inside it is one  *)
(* action.  rand.Uint64() is a nondeterministic choice from a small set.   *)
(***************************************************************************)
EXTENDS Naturals, Sequences, FiniteSets

(* ------------------------------ bounds -------------------------------- *)

\* number of goroutines calling the signaling channel
NumSigProcs == 3
\* offer / session identifiers drawn by rand.Uint64(): 1..NumIds
NumIds == 2
\* distinct offer and answer blobs: 1..NumBlobs
NumBlobs == 2
\* bufferSize given to NewDebugSignal
BufferSize == 2
\* Offer calls made in one run
MaxOffers == 2
\* Answer calls that store an answer in one run
MaxAnswers == 2

\* goroutines calling Start, Stop, Suspend and Accept on the Listener
NumCallers == 2
\* accept-loop goroutines spawned in one run (one per successful Start)
MaxLoops == 2
\* offers GetOffer hands to the accept loop in one run (one task each)
MaxTasks == 1
\* data channels the remote peers open in one run
MaxOpens == 1
\* offers GetOffer hands to the accept loop in one run of the registry's
\* specification RegSpec (one task each)
MaxRegTasks == 2

\* goroutines calling DialContext on the Dialer
NumDialers == 2
\* engine sessions the Dialer creates in one run
MaxDialSessions == 2

SigProcs == 1..NumSigProcs
Callers == 1..NumCallers
\* the negotiation tasks of a run; a run of LisSpec starts the first MaxTasks
Tasks == 1..MaxRegTasks
Ids == 1..NumIds
Dialers == 1..NumDialers
DialSessions == 1..MaxDialSessions
Blobs == 1..NumBlobs

\* the zero value of an id or of a byte slice (nil)
Nil == 0

VARIABLES
  \* DebugSignal
  offers,      \* ds.offers: the buffered channel's content, oldest first
  answers,     \* ds.answers: map offerID -> answer
  \* callers of the DebugSignal
  spc,         \* where each caller is: "idle" or inside a call
  sloc,        \* the locals of the call a caller is in (id, body)
  sret,        \* the error returned by the call that completed last ("nil": no error)
  \* history of what the callers passed in and got back
  offLog,      \* (id returned, body passed) of every Offer, in enqueue order
  rdLog,       \* (id, body) returned by every ReadOffer, in order
  ansLog,      \* per id: the blobs of the Answer calls that returned nil
  gotLog       \* per id: the blobs returned by the ReadAnswer calls

sigVars == <<offers, answers, spc, sloc, sret, offLog, rdLog, ansLog, gotLog>>

\* ListenerRunningStatus
LISTENER_NEW == 0
LISTENER_RUNNING == 1
LISTENER_SUSPENDED == 2
LISTENER_STOPPED == 3

VARIABLES
  \* Listener
  runningStatus,    \* l.runningStatus
  peerConnections,  \* l.peerConnections: PCID -> session (the task that made it)
  abortAccept,      \* l.abortAccept: the values sent on it and not yet received
  connsSenders,     \* goroutines blocked in l.conns <- conn
  \* engine sessions, one per negotiation task
  pcState,          \* "none" (not created), "open" or "closed"
  \* callers of the Listener
  lpc,              \* where each caller is: "idle" or inside a call
  lret,             \* what the call that completed last returned
  stopSaw,          \* per caller in Stop: was the status NEW or STOPPED during the call
  \* accept loops: how many goroutines are at each place of the loop
  loops,
  \* negotiation tasks (goroutines running nextPeerConnection)
  tpc,              \* where each task is
  tid,              \* its local id (the PCID nextPCID returned)
  tret,             \* what nextPeerConnection returned
  hpc,              \* where the task's answer-creation goroutine is
  opens             \* data channels opened so far

lisVars == <<runningStatus, peerConnections, abortAccept, connsSenders, pcState,
             lpc, lret, stopSaw, loops, tpc, tid, tret, hpc, opens>>

VARIABLES
  \* Dialer
  dmutex,    \* d.mutex: the DialContext caller holding it, Nil when free
  slot,      \* d.peerConnection: a session, Nil when nil
  \* engine sessions of the Dialer, numbered in creation order
  dsess,     \* "none" (not created), "open" or "closed"
  dneg,      \* the session's NewPeerConnection: "none", "running", "failed", "ok"
  dh,        \* where the goroutine reporting on bChan for the session is
  dobs,      \* is an OnConnectionStateChange(Disconnected) handler waiting to run
  \* callers of DialContext
  dpc,       \* where each caller is: "idle" or inside the call
  dctx,      \* per caller: has the call's context expired
  dsecond,   \* per caller: is the call past the first CreateDataChannel
  dret       \* what the DialContext call that completed last returned

dialVars == <<dmutex, slot, dsess, dneg, dh, dobs, dpc, dctx, dsecond, dret>>

vars == <<sigVars, lisVars, dialVars>>

(* --------------------------- Go primitives ---------------------------- *)

\* m[k] = v on a Go map
MapPut(m, k, v) == [x \in (DOMAIN m) \cup {k} |-> IF x = k THEN v ELSE m[x]]

\* delete(m, k) on a Go map
MapDelete(m, k) == [x \in (DOMAIN m) \ {k} |-> m[x]]

\* make(map[...]...)
EmptyMap == [x \in {} |-> Nil]

\* mutant of ChanFront: the receive takes the newest value
ChanBack(q) == q[Len(q)]

\* the value a receive takes from a buffered channel: the oldest one
ChanFront(q) == Head(q)

\* the channel's buffer after a receive
ChanRest(q) == Tail(q)

\* mutant of MakeOffer: the body is left out of the queued offer
MakeOfferNoBody(id, body) == [id |-> id, body |-> Nil]

\* offer{id: id, body: offerBody}
MakeOffer(id, body) == [id |-> id, body |-> body]

NoLocals == [id |-> Nil, body |-> Nil]

RECURSIVE SumLen(_, _)
SumLen(f, S) ==
  IF S = {} THEN 0
  ELSE LET x == CHOOSE y \in S : TRUE IN Len(f[x]) + SumLen(f, S \ {x})

(* ----------------------------- DebugSignal ---------------------------- *)

SigInit ==
  /\ offers = <<>>
  /\ answers = EmptyMap
  /\ spc = [p \in SigProcs |-> "idle"]
  /\ sloc = [p \in SigProcs |-> NoLocals]
  /\ sret = "none"
  /\ offLog = <<>>
  /\ rdLog = <<>>
  /\ ansLog = [i \in Ids |-> <<>>]
  /\ gotLog = [i \in Ids |-> <<>>]

OffersInFlight == Cardinality({p \in SigProcs : spc[p] = "offer_send"})

\* Offer, up to the channel send: id := rand.Uint64()
Offer(p, body, id) ==
  /\ spc[p] = "idle"
  /\ Len(offLog) + OffersInFlight < MaxOffers
  /\ spc' = [spc EXCEPT ![p] = "offer_send"]
  /\ sloc' = [sloc EXCEPT ![p] = [id |-> id, body |-> body]]
  /\ UNCHANGED <<lisVars, dialVars, offers, answers, sret, offLog, rdLog, ansLog, gotLog>>

\* Offer: ds.offers <- offer{...} blocks while the buffer is full; return id, nil
OfferSend(p) ==
  /\ spc[p] = "offer_send"
  /\ Len(offers) < BufferSize
  /\ offers' = Append(offers, MakeOffer(sloc[p].id, sloc[p].body))
  /\ sret' = "nil"
  /\ offLog' = Append(offLog, [id |-> sloc[p].id, body |-> sloc[p].body])
  /\ spc' = [spc EXCEPT ![p] = "idle"]
  /\ sloc' = [sloc EXCEPT ![p] = NoLocals]
  /\ UNCHANGED <<lisVars, dialVars, answers, rdLog, ansLog, gotLog>>

\* ReadOffer: if len(ds.offers) == 0 { return 0, nil, ErrOfferNotReady }
ReadOffer(p) ==
  /\ spc[p] = "idle"
  /\ IF Len(offers) = 0
       THEN /\ sret' = "ErrOfferNotReady"
            /\ spc' = spc
       ELSE /\ spc' = [spc EXCEPT ![p] = "readoffer_recv"]
            /\ sret' = sret
  /\ UNCHANGED <<lisVars, dialVars, offers, answers, sloc, offLog, rdLog, ansLog, gotLog>>

\* ReadOffer: offer := <-ds.offers blocks while the buffer is empty
ReadOfferRecv(p) ==
  /\ spc[p] = "readoffer_recv"
  /\ Len(offers) > 0
  /\ LET o == ChanFront(offers) IN
       /\ sret' = "nil"
       /\ rdLog' = Append(rdLog, [id |-> o.id, body |-> o.body])
  /\ offers' = ChanRest(offers)
  /\ spc' = [spc EXCEPT ![p] = "idle"]
  /\ UNCHANGED <<lisVars, dialVars, answers, sloc, offLog, ansLog, gotLog>>

\* mutant of Answer: no check that offerID already has an answer
AnswerOverwrite(p, offerID, answer) ==
  /\ spc[p] = "idle"
  /\ SumLen(ansLog, Ids) < MaxAnswers
  /\ answers' = MapPut(answers, offerID, answer)
  /\ sret' = "nil"
  /\ ansLog' = [ansLog EXCEPT ![offerID] = Append(@, answer)]
  /\ UNCHANGED <<lisVars, dialVars, offers, spc, sloc, offLog, rdLog, gotLog>>

\* Answer, all of it under answerMutex
Answer(p, offerID, answer) ==
  /\ spc[p] = "idle"
  /\ IF offerID \in DOMAIN answers
       THEN /\ sret' = "ErrInvalidOfferID"
            /\ UNCHANGED <<answers, ansLog>>
       ELSE /\ SumLen(ansLog, Ids) < MaxAnswers
            /\ answers' = MapPut(answers, offerID, answer)
            /\ sret' = "nil"
            /\ ansLog' = [ansLog EXCEPT ![offerID] = Append(@, answer)]
  /\ UNCHANGED <<lisVars, dialVars, offers, spc, sloc, offLog, rdLog, gotLog>>

\* mutant of TakeAnswer: the answer is returned but not deleted
TakeAnswerKeep(p, offerID) ==
  /\ answers' = answers
  /\ sret' = "nil"
  /\ gotLog' = [gotLog EXCEPT ![offerID] = Append(@, answers[offerID])]
  /\ spc' = [spc EXCEPT ![p] = "idle"]
  /\ sloc' = [sloc EXCEPT ![p] = NoLocals]

\* ReadAnswer from the lookup that finds the answer: delete it and return it
TakeAnswer(p, offerID) ==
  /\ answers' = MapDelete(answers, offerID)
  /\ sret' = "nil"
  /\ gotLog' = [gotLog EXCEPT ![offerID] = Append(@, answers[offerID])]
  /\ spc' = [spc EXCEPT ![p] = "idle"]
  /\ sloc' = [sloc EXCEPT ![p] = NoLocals]

\* ReadAnswer: Lock, the first lookup; found: delete and return, else Unlock and sleep
ReadAnswer(p, offerID) ==
  /\ spc[p] = "idle"
  /\ IF offerID \in DOMAIN answers
       THEN TakeAnswer(p, offerID)
       ELSE /\ spc' = [spc EXCEPT ![p] = "readanswer_sleep"]
            /\ sloc' = [sloc EXCEPT ![p] = [id |-> offerID, body |-> Nil]]
            /\ UNCHANGED <<answers, sret, gotLog>>
  /\ UNCHANGED <<lisVars, dialVars, offers, offLog, rdLog, ansLog>>

\* ReadAnswer: after the sleep, Lock and look again; not found: Unlock and sleep again
ReadAnswerPoll(p) ==
  /\ spc[p] = "readanswer_sleep"
  /\ IF sloc[p].id \in DOMAIN answers
       THEN TakeAnswer(p, sloc[p].id)
       ELSE UNCHANGED <<answers, sret, gotLog, spc, sloc>>
  /\ UNCHANGED <<lisVars, dialVars, offers, offLog, rdLog, ansLog>>

\* the offer side of the DebugSignal: Offer and ReadOffer
OffNext ==
  \/ \E p \in SigProcs, body \in Blobs, id \in Ids : Offer(p, body, id)
  \/ \E p \in SigProcs : OfferSend(p)
  \/ \E p \in SigProcs : ReadOffer(p)
  \/ \E p \in SigProcs : ReadOfferRecv(p)

\* the answer side of the DebugSignal: Answer and ReadAnswer
AnsNext ==
  \/ \E p \in SigProcs, id \in Ids, answer \in Blobs : Answer(p, id, answer)
  \/ \E p \in SigProcs, id \in Ids : ReadAnswer(p, id)
  \/ \E p \in SigProcs : ReadAnswerPoll(p)

SigNext == OffNext \/ AnsNext

(* ------------------------------ Listener ------------------------------ *)

LoopPlaces == {"outer", "inner", "fetch"}

\* a new Listener whose signaling channel will hand over n offers
LisInitFor(n) ==
  /\ runningStatus = LISTENER_NEW
  /\ peerConnections = EmptyMap
  /\ abortAccept = <<>>
  /\ connsSenders = 0
  /\ pcState = [t \in Tasks |-> "none"]
  /\ lpc = [p \in Callers |-> "idle"]
  /\ lret = "none"
  /\ stopSaw = [p \in Callers |-> FALSE]
  /\ loops = [w \in LoopPlaces |-> 0]
  /\ tpc = [t \in Tasks |-> IF t <= n THEN "unborn" ELSE "never"]
  /\ tid = [t \in Tasks |-> Nil]
  /\ tret = [t \in Tasks |-> "none"]
  /\ hpc = [t \in Tasks |-> "none"]
  /\ opens = 0

LisInit == LisInitFor(MaxTasks)

\* mutant of SwapTo: atomic.StoreUint32 in place of the compare-and-swap
StoreTo(old, new) == new

\* atomic.CompareAndSwapUint32(&l.runningStatus, old, new): the value it returns
Swapped(old) == runningStatus = old

\* atomic.CompareAndSwapUint32(&l.runningStatus, old, new): the status it leaves
SwapTo(old, new) == IF runningStatus = old THEN new ELSE runningStatus

\* stopSaw after a step that leaves the status st: the Stop calls between their
\* two compare-and-swaps have seen st
SawAfter(st) ==
  [p \in Callers |->
     IF lpc[p] = "stop_cas2"
       THEN stopSaw[p] \/ st \in {LISTENER_NEW, LISTENER_STOPPED}
       ELSE FALSE]

LiveLoops == loops["outer"] + loops["inner"] + loops["fetch"]

StartsInFlight ==
  Cardinality({p \in Callers : lpc[p] \in {"start_cas2", "start_cas3"}})

\* startAcceptLoop: go func() { for ... }() (SignalMethod is not manual)
startAcceptLoop == loops' = [loops EXCEPT !["outer"] = @ + 1]

\* one compare-and-swap of Start: on success startAcceptLoop and return nil,
\* on failure go on to onFail ("idle": return "listener already started")
StartSwap(p, old, onFail) ==
  /\ runningStatus' = SwapTo(old, LISTENER_RUNNING)
  /\ stopSaw' = SawAfter(runningStatus')
  /\ IF Swapped(old)
       THEN /\ startAcceptLoop
            /\ lpc' = [lpc EXCEPT ![p] = "idle"]
            /\ lret' = "Start:nil"
       ELSE /\ loops' = loops
            /\ lpc' = [lpc EXCEPT ![p] = onFail]
            /\ lret' = IF onFail = "idle" THEN "Start:err" ELSE lret
  /\ UNCHANGED <<sigVars, dialVars, peerConnections, abortAccept, connsSenders, pcState,
                 tpc, tid, tret, hpc, opens>>

\* Start: CompareAndSwapUint32(NEW, RUNNING)
Start(p) ==
  /\ lpc[p] = "idle"
  /\ LiveLoops + StartsInFlight < MaxLoops
  /\ StartSwap(p, LISTENER_NEW, "start_cas2")

\* Start: || CompareAndSwapUint32(SUSPENDED, RUNNING)
StartCAS2(p) ==
  /\ lpc[p] = "start_cas2"
  /\ StartSwap(p, LISTENER_SUSPENDED, "start_cas3")

\* Start: || CompareAndSwapUint32(STOPPED, RUNNING)
StartCAS3(p) ==
  /\ lpc[p] = "start_cas3"
  /\ StartSwap(p, LISTENER_STOPPED, "idle")

\* one compare-and-swap of Stop: on success go on to lock the mutex, on
\* failure go on to onFail ("idle": return "listener already stopped")
StopSwap(p, old, onFail) ==
  /\ runningStatus' = SwapTo(old, LISTENER_STOPPED)
  /\ IF Swapped(old)
       THEN /\ lpc' = [lpc EXCEPT ![p] = "stop_clear"]
            /\ lret' = lret
       ELSE /\ lpc' = [lpc EXCEPT ![p] = onFail]
            /\ lret' = IF onFail = "idle" THEN "Stop:err" ELSE lret
  /\ UNCHANGED <<sigVars, dialVars, peerConnections, abortAccept, connsSenders, pcState, loops,
                 tpc, tid, tret, hpc, opens>>

\* Stop: CompareAndSwapUint32(RUNNING, STOPPED)
Stop(p) ==
  /\ lpc[p] = "idle"
  /\ StopSwap(p, LISTENER_RUNNING, "stop_cas2")
  /\ stopSaw' = [SawAfter(runningStatus') EXCEPT
                   ![p] = (lpc'[p] = "stop_cas2")
                          /\ runningStatus \in {LISTENER_NEW, LISTENER_STOPPED}]

\* Stop: || CompareAndSwapUint32(SUSPENDED, STOPPED)
StopCAS2(p) ==
  /\ lpc[p] = "stop_cas2"
  /\ StopSwap(p, LISTENER_SUSPENDED, "idle")
  /\ stopSaw' = [SawAfter(runningStatus') EXCEPT ![p] = FALSE]

\* Stop, under l.mutex: Close every registered PeerConnection, clear the map
StopClear(p) ==
  /\ lpc[p] = "stop_clear"
  /\ pcState' = [t \in Tasks |->
                   IF \E id \in DOMAIN peerConnections : peerConnections[id] = t
                     THEN "closed" ELSE pcState[t]]
  /\ peerConnections' = EmptyMap
  /\ lpc' = [lpc EXCEPT ![p] = "idle"]
  /\ lret' = "Stop:nil"
  /\ UNCHANGED <<sigVars, dialVars, runningStatus, abortAccept, connsSenders, stopSaw, loops,
                 tpc, tid, tret, hpc, opens>>

\* Suspend: CompareAndSwapUint32(RUNNING, SUSPENDED)
Suspend(p) ==
  /\ lpc[p] = "idle"
  /\ runningStatus' = SwapTo(LISTENER_RUNNING, LISTENER_SUSPENDED)
  /\ stopSaw' = SawAfter(runningStatus')
  /\ lret' = IF Swapped(LISTENER_RUNNING) THEN "Suspend:nil" ELSE "Suspend:err"
  /\ UNCHANGED <<sigVars, dialVars, peerConnections, abortAccept, connsSenders, pcState, lpc, loops,
                 tpc, tid, tret, hpc, opens>>

\* Accept: enter the select
Accept(p) ==
  /\ lpc[p] = "idle"
  /\ lpc' = [lpc EXCEPT ![p] = "accept"]
  /\ UNCHANGED <<sigVars, dialVars, runningStatus, peerConnections, abortAccept, connsSenders, pcState,
                 lret, stopSaw, loops, tpc, tid, tret, hpc, opens>>

\* the cases of Accept's select that can proceed
AcceptReady ==
  {c \in {"conns", "abortAccept"} :
     \/ c = "conns" /\ connsSenders > 0
     \/ c = "abortAccept" /\ abortAccept # <<>>}

\* Accept: the select takes a conn from a blocked sender, or a value of abortAccept
AcceptSelect(p) ==
  /\ lpc[p] = "accept"
  /\ \E c \in AcceptReady :
       /\ connsSenders' = IF c = "conns" THEN connsSenders - 1 ELSE connsSenders
       /\ abortAccept' = IF c = "abortAccept" THEN Tail(abortAccept) ELSE abortAccept
       /\ lret' = IF c = "conns" THEN "Accept:conn" ELSE "Accept:stopped"
  /\ lpc' = [lpc EXCEPT ![p] = "idle"]
  /\ UNCHANGED <<sigVars, dialVars, runningStatus, peerConnections, pcState, stopSaw, loops,
                 tpc, tid, tret, hpc, opens>>

MoveLoop(from, to) ==
  loops' = [w \in LoopPlaces |->
              loops[w] - (IF w = from THEN 1 ELSE 0) + (IF w = to THEN 1 ELSE 0)]

\* accept loop: for atomic.LoadUint32(&l.runningStatus) != LISTENER_STOPPED
LoopOuter ==
  /\ loops["outer"] > 0
  /\ IF runningStatus # LISTENER_STOPPED
       THEN MoveLoop("outer", "inner")
       ELSE MoveLoop("outer", "exit")
  /\ UNCHANGED <<sigVars, dialVars, runningStatus, peerConnections, abortAccept, connsSenders, pcState,
                 lpc, lret, stopSaw, tpc, tid, tret, hpc, opens>>

\* accept loop: for atomic.LoadUint32(&l.runningStatus) == LISTENER_RUNNING;
\* when it is not, sleep a second and go round the outer loop
LoopInner ==
  /\ loops["inner"] > 0
  /\ IF runningStatus = LISTENER_RUNNING
       THEN MoveLoop("inner", "fetch")
       ELSE MoveLoop("inner", "outer")
  /\ UNCHANGED <<sigVars, dialVars, runningStatus, peerConnections, abortAccept, connsSenders, pcState,
                 lpc, lret, stopSaw, tpc, tid, tret, hpc, opens>>

Unborn == {t \in Tasks : tpc[t] = "unborn"}

\* accept loop: l.SignalMethod.GetOffer(); on an error continue, else start a
\* goroutine running nextPeerConnection under a MaxAcceptTimeout context
LoopFetch ==
  /\ loops["fetch"] > 0
  /\ MoveLoop("fetch", "inner")
  /\ \E gotOffer \in BOOLEAN :
       IF gotOffer
         THEN /\ Unborn # {}
              /\ LET t == CHOOSE u \in Unborn : \A v \in Unborn : u <= v IN
                   tpc' = [tpc EXCEPT ![t] = "new"]
         ELSE tpc' = tpc
  /\ UNCHANGED <<sigVars, dialVars, runningStatus, peerConnections, abortAccept, connsSenders, pcState,
                 lpc, lret, stopSaw, tid, tret, hpc, opens>>

\* nextPeerConnection: api.NewPeerConnection(l.configuration)
TaskNewPeerConnection(t) ==
  /\ tpc[t] = "new"
  /\ \E ok \in BOOLEAN :
       IF ok
         THEN /\ pcState' = [pcState EXCEPT ![t] = "open"]
              /\ tpc' = [tpc EXCEPT ![t] = "pcid"]
              /\ tret' = tret
         ELSE /\ pcState' = pcState
              /\ tpc' = [tpc EXCEPT ![t] = "done"]
              /\ tret' = [tret EXCEPT ![t] = "err"]
  /\ UNCHANGED <<sigVars, dialVars, runningStatus, peerConnections, abortAccept, connsSenders,
                 lpc, lret, stopSaw, loops, tid, hpc, opens>>

\* nextPCID, under l.mutex: a random id that is not a key of the map
nextPCID(t) ==
  /\ tpc[t] = "pcid"
  /\ \E id \in Ids \ DOMAIN peerConnections : tid' = [tid EXCEPT ![t] = id]
  /\ tpc' = [tpc EXCEPT ![t] = "register"]
  /\ UNCHANGED <<sigVars, dialVars, runningStatus, peerConnections, abortAccept, connsSenders, pcState,
                 lpc, lret, stopSaw, loops, tret, hpc, opens>>

\* nextPeerConnection, under l.mutex: l.peerConnections[id] = peerConnection
TaskRegister(t) ==
  /\ tpc[t] = "register"
  /\ peerConnections' = MapPut(peerConnections, tid[t], t)
  /\ tpc' = [tpc EXCEPT ![t] = "setremote"]
  /\ UNCHANGED <<sigVars, dialVars, runningStatus, abortAccept, connsSenders, pcState,
                 lpc, lret, stopSaw, loops, tid, tret, hpc, opens>>

\* nextPeerConnection: install the observers, json.Unmarshal the offer,
\* SetRemoteDescription; then start the answer-creation goroutine
TaskSetRemote(t) ==
  /\ tpc[t] = "setremote"
  /\ \E ok \in BOOLEAN :
       IF ok
         THEN /\ tpc' = [tpc EXCEPT ![t] = "select"]
              /\ hpc' = [hpc EXCEPT ![t] = "create"]
              /\ tret' = tret
         ELSE /\ tpc' = [tpc EXCEPT ![t] = "done"]
              /\ hpc' = hpc
              /\ tret' = [tret EXCEPT ![t] = "err"]
  /\ UNCHANGED <<sigVars, dialVars, runningStatus, peerConnections, abortAccept, connsSenders, pcState,
                 lpc, lret, stopSaw, loops, tid, opens>>

\* answer goroutine: peerConnection.CreateAnswer(nil); on an error send false
HelperCreateAnswer(t) ==
  /\ hpc[t] = "create"
  /\ \E ok \in BOOLEAN :
       hpc' = [hpc EXCEPT ![t] = IF ok THEN "setlocal" ELSE "send_false_1"]
  /\ UNCHANGED <<sigVars, dialVars, runningStatus, peerConnections, abortAccept, connsSenders, pcState,
                 lpc, lret, stopSaw, loops, tpc, tid, tret, opens>>

\* answer goroutine: GatheringCompletePromise, SetLocalDescription; on an
\* error send false
HelperSetLocal(t) ==
  /\ hpc[t] = "setlocal"
  /\ \E ok \in BOOLEAN :
       hpc' = [hpc EXCEPT ![t] = IF ok THEN "gather" ELSE "send_false_2"]
  /\ UNCHANGED <<sigVars, dialVars, runningStatus, peerConnections, abortAccept, connsSenders, pcState,
                 lpc, lret, stopSaw, loops, tpc, tid, tret, opens>>

\* answer goroutine: <-gatherComplete returns when the engine has gathered
HelperGathered(t) ==
  /\ hpc[t] = "gather"
  /\ hpc' = [hpc EXCEPT ![t] = "send_true"]
  /\ UNCHANGED <<sigVars, dialVars, runningStatus, peerConnections, abortAccept, connsSenders, pcState,
                 lpc, lret, stopSaw, loops, tpc, tid, tret, opens>>

\* where the answer goroutine goes on once its send on blockingChan is received
AfterSend(h) ==
  IF h = "send_false_1" THEN "setlocal"
  ELSE IF h = "send_false_2" THEN "gather"
  ELSE "done"

\* nextPeerConnection: select, case <-ctx.Done(): return ctx.Err()
TaskCtxDone(t) ==
  /\ tpc[t] = "select"
  /\ tpc' = [tpc EXCEPT ![t] = "done"]
  /\ tret' = [tret EXCEPT ![t] = "ctx"]
  /\ UNCHANGED <<sigVars, dialVars, runningStatus, peerConnections, abortAccept, connsSenders, pcState,
                 lpc, lret, stopSaw, loops, tid, hpc, opens>>

\* nextPeerConnection: select, case status := <-bChan: on false return an
\* error, on true marshal the answer and l.SignalMethod.Answer(offerID, ...)
TaskStatus(t) ==
  /\ tpc[t] = "select"
  /\ hpc[t] \in {"send_false_1", "send_false_2", "send_true"}
  /\ hpc' = [hpc EXCEPT ![t] = AfterSend(@)]
  /\ tpc' = [tpc EXCEPT ![t] = "done"]
  /\ \E answered \in BOOLEAN :
       tret' = [tret EXCEPT ![t] =
                  IF hpc[t] = "send_true" /\ answered THEN "nil" ELSE "err"]
  /\ UNCHANGED <<sigVars, dialVars, runningStatus, peerConnections, abortAccept, connsSenders, pcState,
                 lpc, lret, stopSaw, loops, tid, opens>>

\* the session's observers are installed
Observed(t) == tpc[t] \in {"select", "done"} /\ tid[t] # Nil

\* the observer's body, under l.mutex: peerConnection.Close(); delete(l.peerConnections, id)
Evict(t) ==
  /\ Observed(t)
  /\ pcState' = [pcState EXCEPT ![t] = "closed"]
  /\ peerConnections' = MapDelete(peerConnections, tid[t])
  /\ UNCHANGED <<sigVars, dialVars, runningStatus, abortAccept, connsSenders,
                 lpc, lret, stopSaw, loops, tpc, tid, tret, hpc, opens>>

\* OnConnectionStateChange observer on Failed, Closed or Disconnected
OnConnectionStateChange(t) == Evict(t)

\* OnICEConnectionStateChange observer on Failed, Closed or Disconnected
OnICEConnectionStateChange(t) == Evict(t)

\* OnDataChannel / OnOpen observer: d.Detach(); on success make the Conn,
\* start its readLoop and block in l.conns <- conn
OnOpen(t) ==
  /\ Observed(t)
  /\ tret[t] = "nil"
  /\ pcState[t] = "open"
  /\ opens < MaxOpens
  /\ opens' = opens + 1
  /\ \E detached \in BOOLEAN :
       connsSenders' = IF detached THEN connsSenders + 1 ELSE connsSenders
  /\ UNCHANGED <<sigVars, dialVars, runningStatus, peerConnections, abortAccept, pcState,
                 lpc, lret, stopSaw, loops, tpc, tid, tret, hpc>>

\* Start, Stop and Suspend, and the accept loops, which read the status
StatusNext ==
  \/ \E p \in Callers : Start(p)
  \/ \E p \in Callers : StartCAS2(p)
  \/ \E p \in Callers : StartCAS3(p)
  \/ \E p \in Callers : Stop(p)
  \/ \E p \in Callers : StopCAS2(p)
  \/ \E p \in Callers : StopClear(p)
  \/ \E p \in Callers : Suspend(p)
  \/ LoopOuter
  \/ LoopInner
  \/ LoopFetch

\* Accept, the negotiation tasks and the engine's observers
SessionNext ==
  \/ \E p \in Callers : Accept(p)
  \/ \E p \in Callers : AcceptSelect(p)
  \/ \E t \in Tasks : TaskNewPeerConnection(t)
  \/ \E t \in Tasks : nextPCID(t)
  \/ \E t \in Tasks : TaskRegister(t)
  \/ \E t \in Tasks : TaskSetRemote(t)
  \/ \E t \in Tasks : HelperCreateAnswer(t)
  \/ \E t \in Tasks : HelperSetLocal(t)
  \/ \E t \in Tasks : HelperGathered(t)
  \/ \E t \in Tasks : TaskCtxDone(t)
  \/ \E t \in Tasks : TaskStatus(t)
  \/ \E t \in Tasks : OnConnectionStateChange(t)
  \/ \E t \in Tasks : OnICEConnectionStateChange(t)
  \/ \E t \in Tasks : OnOpen(t)

LisNext == StatusNext \/ SessionNext

\* the steps that read or write l.peerConnections, and those that start them:
\* Start and the accept loop, the tasks up to their select, the connectivity
\* observers, and Stop
RegNext ==
  \/ \E p \in Callers : Start(p)
  \/ LoopOuter
  \/ LoopInner
  \/ LoopFetch
  \/ \E t \in Tasks : TaskNewPeerConnection(t)
  \/ \E t \in Tasks : nextPCID(t)
  \/ \E t \in Tasks : TaskRegister(t)
  \/ \E t \in Tasks : TaskSetRemote(t)
  \/ \E t \in Tasks : OnConnectionStateChange(t)
  \/ \E t \in Tasks : OnICEConnectionStateChange(t)
  \/ \E p \in Callers : Stop(p)
  \/ \E p \in Callers : StopCAS2(p)
  \/ \E p \in Callers : StopClear(p)

(* ------------------------------ Dialer -------------------------------- *)
(* SignalMethod is set: NewPeerConnection does the offer/answer exchange.  *)

\* the zero value of a Dialer
DialInit ==
  /\ dmutex = Nil
  /\ slot = Nil
  /\ dsess = [s \in DialSessions |-> "none"]
  /\ dneg = [s \in DialSessions |-> "none"]
  /\ dh = [s \in DialSessions |-> "none"]
  /\ dobs = [s \in DialSessions |-> FALSE]
  /\ dpc = [p \in Dialers |-> "idle"]
  /\ dctx = [p \in Dialers |-> FALSE]
  /\ dsecond = [p \in Dialers |-> FALSE]
  /\ dret = "none"

\* the sessions api.NewPeerConnection has returned so far
NumCreated == Cardinality({s \in DialSessions : dsess[s] # "none"})

\* mutant of SlotEmpty: DialContext does not look at d.peerConnection
SlotAlwaysEmpty == TRUE

\* DialContext: if d.peerConnection == nil
SlotEmpty == slot = Nil

\* a return of DialContext: the deferred d.mutex.Unlock() runs
DialReturn(p, r) ==
  /\ dmutex' = Nil
  /\ dpc' = [dpc EXCEPT ![p] = "idle"]
  /\ dctx' = [dctx EXCEPT ![p] = FALSE]
  /\ dsecond' = [dsecond EXCEPT ![p] = FALSE]
  /\ dret' = r

\* DialContext: if err := ctx.Err(); err != nil return it, else go on to Lock
DialContext(p) ==
  /\ dpc[p] = "idle"
  /\ \E expired \in BOOLEAN :
       IF expired
         THEN dpc' = dpc /\ dret' = "ctx"
         ELSE dpc' = [dpc EXCEPT ![p] = "lock"] /\ dret' = dret
  /\ UNCHANGED <<sigVars, lisVars, dmutex, slot, dsess, dneg, dh, dobs, dctx, dsecond>>

\* DialContext: d.mutex.Lock(); if d.peerConnection == nil NewPeerConnection
DialLock(p) ==
  /\ dpc[p] = "lock"
  /\ dmutex = Nil
  /\ dmutex' = p
  /\ dpc' = [dpc EXCEPT ![p] = IF SlotEmpty THEN "newpc" ELSE "createdc"]
  /\ UNCHANGED <<sigVars, lisVars, slot, dsess, dneg, dh, dobs, dctx, dsecond, dret>>

\* NewPeerConnection: api.NewPeerConnection, install the observer,
\* d.peerConnection = peerConnection, start the goroutine running CreateOffer
NewPeerConnection(p) ==
  /\ dpc[p] = "newpc"
  /\ \E ok \in (IF NumCreated < MaxDialSessions THEN BOOLEAN ELSE {FALSE}) :
       IF ok
         THEN /\ dsess' = [dsess EXCEPT ![NumCreated + 1] = "open"]
              /\ slot' = NumCreated + 1
              /\ dneg' = [dneg EXCEPT ![NumCreated + 1] = "running"]
              /\ dh' = [dh EXCEPT ![NumCreated + 1] = "offer"]
              /\ dpc' = [dpc EXCEPT ![p] = "phaseA"]
              /\ UNCHANGED <<dmutex, dctx, dsecond, dret>>
         ELSE /\ DialReturn(p, "err")
              /\ UNCHANGED <<slot, dsess, dneg, dh>>
  /\ UNCHANGED <<sigVars, lisVars, dobs>>

\* offer goroutine: err := d.CreateOffer(ctx), which returns once gathering
\* is complete, a step failed or ctx is done; then blockingChan <- (err == nil)
CreateOffer(s) ==
  /\ dh[s] = "offer"
  /\ \E ok \in BOOLEAN :
       dh' = [dh EXCEPT ![s] = IF ok THEN "send_offer_ok" ELSE "send_offer_fail"]
  /\ UNCHANGED <<sigVars, lisVars, dmutex, slot, dsess, dneg, dobs, dpc, dctx, dsecond, dret>>

\* NewPeerConnection returns an error: the session stays as it is
NewPeerConnectionFails(p, r) ==
  /\ DialReturn(p, r)
  /\ dneg' = [dneg EXCEPT ![slot] = "failed"]

\* NewPeerConnection, first select: case <-ctx.Done(): return ctx.Err()
PhaseACtxDone(p) ==
  /\ dpc[p] = "phaseA"
  /\ dctx[p]
  /\ NewPeerConnectionFails(p, "ctx")
  /\ UNCHANGED <<sigVars, lisVars, slot, dsess, dh, dobs>>

\* NewPeerConnection, first select: case status := <-bChan: on false return
\* an error; on true GetOffer, SignalMethod.MakeOffer, and on success start
\* the goroutine running GetAnswer and SetAnswer
PhaseAStatus(p) ==
  /\ dpc[p] = "phaseA"
  /\ dh[slot] \in {"send_offer_ok", "send_offer_fail"}
  /\ \E made \in BOOLEAN :
       IF dh[slot] = "send_offer_ok" /\ made
         THEN /\ dh' = [dh EXCEPT ![slot] = "answer"]
              /\ dpc' = [dpc EXCEPT ![p] = "phaseB"]
              /\ UNCHANGED <<dmutex, dneg, dctx, dsecond, dret>>
         ELSE /\ dh' = [dh EXCEPT ![slot] = "done"]
              /\ NewPeerConnectionFails(p, "err")
  /\ UNCHANGED <<sigVars, lisVars, slot, dsess, dobs>>

\* answer goroutine: d.SignalMethod.GetAnswer(), d.SetAnswer(answerBytes);
\* then blockingChan <- false or blockingChan <- (err == nil)
SetAnswer(s) ==
  /\ dh[s] = "answer"
  /\ \E ok \in BOOLEAN :
       dh' = [dh EXCEPT ![s] = IF ok THEN "send_answer_ok" ELSE "send_answer_fail"]
  /\ UNCHANGED <<sigVars, lisVars, dmutex, slot, dsess, dneg, dobs, dpc, dctx, dsecond, dret>>

\* NewPeerConnection, second select: case <-ctx.Done(): return ctx.Err()
PhaseBCtxDone(p) ==
  /\ dpc[p] = "phaseB"
  /\ dctx[p]
  /\ NewPeerConnectionFails(p, "ctx")
  /\ UNCHANGED <<sigVars, lisVars, slot, dsess, dh, dobs>>

\* NewPeerConnection, second select: case status := <-bChan: on false return
\* an error, on true return nil; DialContext goes on to CreateDataChannel
PhaseBStatus(p) ==
  /\ dpc[p] = "phaseB"
  /\ dh[slot] \in {"send_answer_ok", "send_answer_fail"}
  /\ dh' = [dh EXCEPT ![slot] = "done"]
  /\ IF dh[slot] = "send_answer_ok"
       THEN /\ dneg' = [dneg EXCEPT ![slot] = "ok"]
            /\ dpc' = [dpc EXCEPT ![p] = "createdc"]
            /\ UNCHANGED <<dmutex, dctx, dsecond, dret>>
       ELSE NewPeerConnectionFails(p, "err")
  /\ UNCHANGED <<sigVars, lisVars, slot, dsess, dobs>>

\* DialContext: d.peerConnection.CreateDataChannel(label, nil); on
\* ErrConnectionClosed of the first attempt NewPeerConnection and a second
\* attempt; any other failure is returned
CreateDataChannel(p) ==
  /\ dpc[p] = "createdc"
  /\ IF dsess[slot] = "closed"
       THEN IF dsecond[p]
              THEN DialReturn(p, "err")
              ELSE /\ dsecond' = [dsecond EXCEPT ![p] = TRUE]
                   /\ dpc' = [dpc EXCEPT ![p] = "newpc"]
                   /\ UNCHANGED <<dmutex, dctx, dret>>
       ELSE \E ok \in BOOLEAN :
              IF ok
                THEN /\ dpc' = [dpc EXCEPT ![p] = "waitopen"]
                     /\ UNCHANGED <<dmutex, dctx, dsecond, dret>>
                ELSE DialReturn(p, "err")
  /\ UNCHANGED <<sigVars, lisVars, slot, dsess, dneg, dh, dobs>>

\* DialContext, select: case <-ctx.Done(): return nil, ctx.Err()
DialCtxDone(p) ==
  /\ dpc[p] = "waitopen"
  /\ dctx[p]
  /\ DialReturn(p, "ctx")
  /\ UNCHANGED <<sigVars, lisVars, slot, dsess, dneg, dh, dobs>>

\* dataChannel.OnOpen: Detach, send the result on detachChan; DialContext,
\* select: case dataChannelDetach := <-detachChan: return the Conn or an error
DialOnOpen(p) ==
  /\ dpc[p] = "waitopen"
  /\ dsess[slot] = "open"
  /\ \E detached \in BOOLEAN : DialReturn(p, IF detached THEN "conn" ELSE "err")
  /\ UNCHANGED <<sigVars, lisVars, slot, dsess, dneg, dh, dobs>>

\* the context of a DialContext call in progress expires or is cancelled
CtxExpire(p) ==
  /\ dpc[p] # "idle"
  /\ ~dctx[p]
  /\ dctx' = [dctx EXCEPT ![p] = TRUE]
  /\ UNCHANGED <<sigVars, lisVars, dmutex, slot, dsess, dneg, dh, dobs, dpc, dsecond, dret>>

\* the engine reports PeerConnectionStateDisconnected for an open session and
\* starts the OnConnectionStateChange handler in a goroutine
Disconnected(s) ==
  /\ dsess[s] = "open"
  /\ ~dobs[s]
  /\ dobs' = [dobs EXCEPT ![s] = TRUE]
  /\ UNCHANGED <<sigVars, lisVars, dmutex, slot, dsess, dneg, dh, dpc, dctx, dsecond, dret>>

\* the handler, under d.mutex: peerConnection.Close(); d.peerConnection = nil
DialerOnConnectionStateChange(s) ==
  /\ dobs[s]
  /\ dmutex = Nil
  /\ dobs' = [dobs EXCEPT ![s] = FALSE]
  /\ dsess' = [dsess EXCEPT ![s] = "closed"]
  /\ slot' = Nil
  /\ UNCHANGED <<sigVars, lisVars, dmutex, dneg, dh, dpc, dctx, dsecond, dret>>

\* Close: d.peerConnection.Close(), without d.mutex
Close ==
  /\ slot # Nil
  /\ dsess[slot] = "open"
  /\ dsess' = [dsess EXCEPT ![slot] = "closed"]
  /\ UNCHANGED <<sigVars, lisVars, dmutex, slot, dneg, dh, dobs, dpc, dctx, dsecond, dret>>

\* the DialContext calls, their goroutines and their contexts
CallNext ==
  \/ \E p \in Dialers : DialContext(p)
  \/ \E p \in Dialers : DialLock(p)
  \/ \E p \in Dialers : NewPeerConnection(p)
  \/ \E s \in DialSessions : CreateOffer(s)
  \/ \E p \in Dialers : PhaseACtxDone(p)
  \/ \E p \in Dialers : PhaseAStatus(p)
  \/ \E s \in DialSessions : SetAnswer(s)
  \/ \E p \in Dialers : PhaseBCtxDone(p)
  \/ \E p \in Dialers : PhaseBStatus(p)
  \/ \E p \in Dialers : CreateDataChannel(p)
  \/ \E p \in Dialers : DialCtxDone(p)
  \/ \E p \in Dialers : DialOnOpen(p)
  \/ \E p \in Dialers : CtxExpire(p)

\* the steps that close a session: a disconnection and its observer, Close
CloseNext ==
  \/ \E s \in DialSessions : Disconnected(s)
  \/ \E s \in DialSessions : DialerOnConnectionStateChange(s)
  \/ Close

DialNext == CallNext \/ CloseNext

(* ================= claims about the DebugSignal ======================= *)

\* the ReadAnswer calls waiting (asleep between two lookups) for offerID
Waiting(offerID) ==
  {p \in SigProcs : spc[p] = "readanswer_sleep" /\ sloc[p].id = offerID}

\* the positions of the Offer calls that returned id
OfferedWith(id) == {k \in 1..Len(offLog) : offLog[k].id = id}

\* C1: Answer(id, a) followed by Answer(id, b) with no ReadAnswer(id) in
\* between: the second call returns ErrInvalidOfferID and the stored answers
\* stay as they are, the one for id being a.
C1_SecondAnswerRejected ==
  [][\A p \in SigProcs, id \in Ids, b \in Blobs :
       (Answer(p, id, b) /\ Len(ansLog[id]) > Len(gotLog[id]))
         => /\ sret' = "ErrInvalidOfferID"
            /\ answers' = answers
            /\ id \in DOMAIN answers'
            /\ answers'[id] = ansLog[id][Len(ansLog[id])]]_vars

\* an Answer was rejected while the answer stored first is still unread
C1_Witness ==
  /\ sret = "ErrInvalidOfferID"
  /\ \E id \in Ids : Len(ansLog[id]) = 1 /\ gotLog[id] = <<>> /\ id \in DOMAIN answers

\* C2: each offer identifier is written at most once over any sequence of
\* Answer and ReadAnswer calls: no identifier has two successful Answer calls.
C2_AtMostOnceWrite == \A id \in Ids : Len(ansLog[id]) <= 1

\* the answers returned by ReadAnswer(id) are the answers stored by
\* Answer(id, ...), one return per stored answer, in order
C3_ExactlyOnce ==
  \A id \in Ids :
    /\ Len(gotLog[id]) <= Len(ansLog[id])
    /\ \A k \in 1..Len(gotLog[id]) : gotLog[id][k] = ansLog[id][k]
    /\ (id \in DOMAIN answers) <=> (Len(ansLog[id]) = Len(gotLog[id]) + 1)
    /\ (id \in DOMAIN answers) => answers[id] = ansLog[id][Len(ansLog[id])]

\* C3: ReadAnswer(id) does not return while no answer is stored; once
\* Answer(id, v) has succeeded a waiting ReadAnswer(id) eventually returns v
\* and deletes it; every stored answer is returned to exactly one call.
C3_ReadAnswerWaitsAndReturns ==
  /\ []C3_ExactlyOnce
  /\ \A id \in Ids : \A k \in 1..(MaxAnswers + 1) :
       (Waiting(id) # {} /\ Len(ansLog[id]) >= k) ~> (Len(gotLog[id]) >= k)

\* one ReadAnswer(id) got the answer while another is still waiting for id
C3_Witness ==
  \E id \in Ids :
    /\ Len(gotLog[id]) >= 1
    /\ Waiting(id) # {}
    /\ id \notin DOMAIN answers

\* C4: ReadOffer returns the offers in the order Offer enqueued them, each
\* once with the id Offer returned, and ErrOfferNotReady when none is queued.
C4_ReadOfferFIFO ==
  /\ [](rdLog \o offers = offLog)
  /\ [][\A p \in SigProcs :
          ReadOffer(p) =>
            /\ (Len(offers) = 0) => (sret' = "ErrOfferNotReady" /\ spc'[p] = "idle")
            /\ (Len(offers) > 0) => (sret' = sret /\ spc'[p] = "readoffer_recv")]_vars

\* two different offers were read, then a ReadOffer found the queue empty
C4_Witness ==
  /\ Len(rdLog) = 2
  /\ rdLog[1] # rdLog[2]
  /\ offers = <<>>
  /\ sret = "ErrOfferNotReady"

\* C5: ReadOffer never blocks: no ReadOffer call is at the channel receive
\* while the channel is empty, where it waits for an Offer to happen.
C5_ReadOfferNeverBlocks ==
  \A p \in SigProcs : spc[p] = "readoffer_recv" => Len(offers) > 0

\* C6: round trip: when one Offer returned id, one Answer(id, a) succeeded
\* and ReadAnswer(id) returned, then every ReadOffer that returned id
\* returned that offer's body, and ReadAnswer(id) returned exactly a.
C6_RoundTrip ==
  \A id \in Ids :
    (Cardinality(OfferedWith(id)) = 1 /\ Len(ansLog[id]) = 1 /\ Len(gotLog[id]) = 1)
      => /\ \A k \in 1..Len(rdLog) : \A j \in OfferedWith(id) :
              rdLog[k].id = id => rdLog[k].body = offLog[j].body
         /\ gotLog[id][1] = ansLog[id][1]

\* a complete round trip of one id while an offer and an answer of the
\* other id are in flight
C6_Witness ==
  \E id \in Ids, other \in Ids :
    /\ other # id
    /\ Cardinality(OfferedWith(id)) = 1
    /\ \E k \in 1..Len(rdLog) : rdLog[k].id = id
    /\ Len(ansLog[id]) = 1
    /\ Len(gotLog[id]) = 1
    /\ OfferedWith(other) # {}
    /\ other \in DOMAIN answers


(* =================== claims about the Listener ======================== *)

StartStep(p) == Start(p) \/ StartCAS2(p) \/ StartCAS3(p)

StopStep(p) == Stop(p) \/ StopCAS2(p)

\* a Stop call has returned nil and no Start has succeeded since
StopReturned ==
  /\ runningStatus = LISTENER_STOPPED
  /\ \A p \in Callers : lpc[p] # "stop_clear"

\* C7: the status changes only along the transition table, by the call the
\* table names; a call returns nil exactly when its compare-and-swap made the
\* change, and a call that returns an error leaves the status as it was; NEW
\* is never re-entered.
C7_TransitionTable ==
  [][/\ runningStatus' # runningStatus =>
          \E p \in Callers :
            \/ /\ StartStep(p)
               /\ runningStatus \in {LISTENER_NEW, LISTENER_SUSPENDED, LISTENER_STOPPED}
               /\ runningStatus' = LISTENER_RUNNING
            \/ /\ Suspend(p)
               /\ runningStatus = LISTENER_RUNNING
               /\ runningStatus' = LISTENER_SUSPENDED
            \/ /\ StopStep(p)
               /\ runningStatus \in {LISTENER_RUNNING, LISTENER_SUSPENDED}
               /\ runningStatus' = LISTENER_STOPPED
     /\ \A p \in Callers :
          /\ (StartStep(p) /\ lpc'[p] = "idle") =>
               \/ lret' = "Start:nil" /\ runningStatus' # runningStatus
               \/ lret' = "Start:err" /\ runningStatus' = runningStatus
          /\ (StartStep(p) /\ runningStatus = LISTENER_RUNNING) =>
               /\ runningStatus' = LISTENER_RUNNING
               /\ lpc'[p] = "idle" => lret' = "Start:err"
          /\ Suspend(p) =>
               \/ lret' = "Suspend:nil" /\ runningStatus = LISTENER_RUNNING
               \/ /\ lret' = "Suspend:err"
                  /\ runningStatus # LISTENER_RUNNING
                  /\ runningStatus' = runningStatus
          /\ (StopStep(p) /\ lpc'[p] = "idle") =>
               lret' = "Stop:err" /\ runningStatus' = runningStatus
          /\ (StopStep(p) /\ runningStatus \in {LISTENER_NEW, LISTENER_STOPPED}) =>
               /\ runningStatus' = runningStatus
               /\ lpc'[p] \in {"stop_cas2", "idle"}
          /\ StopClear(p) => lret' = "Stop:nil" /\ runningStatus' = runningStatus
     /\ runningStatus' = LISTENER_NEW => runningStatus = LISTENER_NEW]_vars

\* a Start on a RUNNING listener has just returned "listener already started"
C7_Witness ==
  /\ lret = "Start:err"
  /\ runningStatus = LISTENER_RUNNING
  /\ LiveLoops >= 1

\* C8: a Stop call returns an error only if the status was NEW or STOPPED at
\* some moment of the call; when it is RUNNING or SUSPENDED throughout, Stop
\* succeeds.
C8_StopFailsOnlyOnNewOrStopped ==
  [][\A p \in Callers :
       (StopCAS2(p) /\ lpc'[p] = "idle") => stopSaw[p]]_vars

\* C9: an Accept that is waiting once Stop has returned eventually returns.
C9_AcceptReturnsAfterStop ==
  \A p \in Callers : (lpc[p] = "accept" /\ StopReturned) ~> (lpc[p] = "idle")

\* C10: once Stop has returned and until the next successful Start the
\* registry is empty and every session the listener created is closed.
C10_StopDestroysSessions ==
  StopReturned =>
    /\ peerConnections = EmptyMap
    /\ \A t \in Tasks : pcState[t] # "open"

\* the registry entries that hold the session of task t
EntriesOf(t) == {id \in DOMAIN peerConnections : peerConnections[id] = t}

\* C13: after a negotiation task has returned an error (its context expired,
\* or a step failed), the session it created is closed and is not in the
\* registry.
C13_FailedTaskLeavesNoSession ==
  \A t \in Tasks :
    (tpc[t] = "done" /\ tret[t] \in {"err", "ctx"} /\ pcState[t] # "none")
      => (pcState[t] = "closed" /\ EntriesOf(t) = {})

\* C14: at most one accept-loop goroutine of the Listener is alive.
C14_AtMostOneLoop == LiveLoops <= 1

\* C15: the eviction of a session that has been evicted before (by an
\* observer or by Stop, which closed it) leaves the registry as it is; it
\* removes no entry of another session.
C15_SecondEvictionNoOp ==
  [][\A t \in Tasks :
       (Evict(t) /\ pcState[t] = "closed") => peerConnections' = peerConnections]_vars

\* C16: a task registers its session under an identifier that is not a key
\* of the registry at that moment: no registration overwrites an entry.
C16_RegisterNeverOverwrites ==
  [][\A t \in Tasks :
       TaskRegister(t) => tid[t] \notin DOMAIN peerConnections]_vars

\* C17: a goroutine that is blocked handing a connection to Accept once Stop
\* has returned eventually stops waiting.
C17_StopUnblocksDelivery ==
  (connsSenders > 0 /\ StopReturned) ~> (connsSenders = 0)

\* the answer goroutines of the Listener blocked in a send on blockingChan
SendingAnswerStatus ==
  {t \in Tasks : hpc[t] \in {"send_false_1", "send_false_2", "send_true"}}

(* ==================== claims about the Dialer ========================= *)

\* the callers that are past the session check of DialContext
PastSessionCheck == {p \in Dialers : dpc[p] \in {"phaseA", "phaseB", "createdc", "waitopen"}}

\* C11: concurrent DialContext calls on a Dialer without a session, with no
\* session closed or disconnected: one session is created at most, and every
\* call that is past the session check uses that one session.
C11_OneSessionCreated ==
  (\A s \in DialSessions : dsess[s] # "closed")
    => /\ NumCreated <= 1
       /\ PastSessionCheck # {} => (NumCreated = 1 /\ slot = 1)

\* a call has returned a Conn of the only session, another call is waiting
\* for its channel on it and a third is waiting for the lock
C11_Witness ==
  /\ NumCreated = 1
  /\ dsess[1] = "open"
  /\ dret = "conn"
  /\ \E p \in Dialers, q \in Dialers : dpc[p] = "waitopen" /\ dpc[q] = "lock"

\* C12: a DialContext call whose context has expired before the call is
\* complete eventually returns, whatever the other calls are doing.
C12_ExpiredCallReturns ==
  \A p \in Dialers : (dpc[p] # "idle" /\ dctx[p]) ~> (dpc[p] = "idle")

\* the offer and answer goroutines of the Dialer blocked in a send on bChan
SendingDialStatus ==
  {s \in DialSessions :
     dh[s] \in {"send_offer_ok", "send_offer_fail", "send_answer_ok", "send_answer_fail"}}

\* C18: no goroutine started to report the completion of a negotiation step
\* stays blocked forever sending its result: neither the Listener's answer
\* goroutine nor the Dialer's offer and answer goroutines.
C18_HelpersTerminate ==
  /\ \A t \in Tasks : (t \in SendingAnswerStatus) ~> (t \notin SendingAnswerStatus)
  /\ \A s \in DialSessions : (s \in SendingDialStatus) ~> (s \notin SendingDialStatus)

\* C19: the observer of session s empties the active-session slot only when
\* the slot holds s; when the slot holds another session it stays as it is.
C19_ObserverClearsOwnSlotOnly ==
  [][\A s \in DialSessions :
       (DialerOnConnectionStateChange(s) /\ slot # s) => slot' = slot]_vars

\* C20: once NewPeerConnection has returned an error for a session, the
\* active-session slot does not hold that session.
C20_FailedCreationAborted ==
  \A s \in DialSessions : dneg[s] = "failed" => slot # s

Init == SigInit /\ LisInit /\ DialInit

\* the DebugSignal and its callers
SigSpec == Init /\ [][SigNext]_vars

\* the callers of Offer and ReadOffer; these calls read and write ds.offers
\* only, and a run of SigSpec seen through ds.offers is a run of OffSpec
OffSpec == Init /\ [][OffNext]_vars

\* the callers of Answer and ReadAnswer; these calls read and write
\* ds.answers only, and a run of SigSpec seen through ds.answers is a run of
\* AnsSpec
AnsSpec == Init /\ [][AnsNext]_vars

\* every caller asleep in ReadAnswer wakes up and looks again
AnsFairSpec ==
  AnsSpec /\ \A p \in SigProcs : WF_vars(ReadAnswerPoll(p))

\* the Listener, its callers, its accept loops and its negotiation tasks
LisSpec == Init /\ [][LisNext]_vars

\* the callers of Start, Stop and Suspend and the accept loops; only these
\* write l.runningStatus, and a run of LisSpec seen through l.runningStatus
\* and these calls is a run of StatusSpec
StatusSpec == Init /\ [][StatusNext]_vars

\* a Listener whose signaling channel hands over MaxRegTasks offers
RegInit == SigInit /\ LisInitFor(MaxRegTasks) /\ DialInit

\* the session registry: every run of RegSpec is a run of the Listener in
\* which the calls and goroutines outside RegNext take no step
RegSpec == RegInit /\ [][RegNext]_vars

\* the Dialer, the callers of DialContext and Close, and the engine's events
DialSpec == Init /\ [][DialNext]_vars

\* the DialContext calls on a Dialer none of whose sessions is disconnected
\* or closed: the runs of DialSpec up to the first step of CloseNext that
\* closes a session
DialCallSpec == Init /\ [][CallNext]_vars

\* a DialContext call that has started goes on, the goroutines of
\* NewPeerConnection and the observer's handler run; callers need not call
\* again, no context need expire and the engine need not report anything.
\* A goroutine waiting in Lock gets the mutex if it is released again and
\* again (sync.Mutex hands over to a starving waiter): strong fairness.
DialFairSpec ==
  /\ DialSpec
  /\ \A p \in Dialers :
       /\ SF_vars(DialLock(p))
       /\ WF_vars(NewPeerConnection(p))
       /\ WF_vars(PhaseACtxDone(p))
       /\ WF_vars(PhaseAStatus(p))
       /\ WF_vars(PhaseBCtxDone(p))
       /\ WF_vars(PhaseBStatus(p))
       /\ WF_vars(CreateDataChannel(p))
       /\ WF_vars(DialCtxDone(p))
  /\ \A s \in DialSessions :
       /\ WF_vars(CreateOffer(s))
       /\ WF_vars(SetAnswer(s))
       /\ SF_vars(DialerOnConnectionStateChange(s))

\* a call that has started goes on, the accept loops and the negotiation
\* tasks run, a task's context expires; the callers need not call again and
\* the engine need not report anything
LisFairSpec ==
  /\ LisSpec
  /\ \A p \in Callers :
       /\ WF_vars(StartCAS2(p))
       /\ WF_vars(StartCAS3(p))
       /\ WF_vars(StopCAS2(p))
       /\ WF_vars(StopClear(p))
       /\ WF_vars(AcceptSelect(p))
  /\ WF_vars(LoopOuter)
  /\ WF_vars(LoopInner)
  /\ WF_vars(LoopFetch)
  /\ \A t \in Tasks :
       /\ WF_vars(TaskNewPeerConnection(t))
       /\ WF_vars(nextPCID(t))
       /\ WF_vars(TaskRegister(t))
       /\ WF_vars(TaskSetRemote(t))
       /\ WF_vars(HelperCreateAnswer(t))
       /\ WF_vars(HelperSetLocal(t))
       /\ WF_vars(TaskCtxDone(t))
       /\ WF_vars(TaskStatus(t))

=============================================================================
